---- MODULE Spec2Model ----
(***************************************************************************)
(* A model of the document retrieval subsystem of soft_batch:              *)
(*   chunking.py   the chunker                                            *)
(*   database.py   the document_chunks table and its transactions          *)
(*   rag.py        chunk_and_embed_document, retrieve_relevant_chunks      *)
(* Texts are sequences of one-character strings and are indexed from 0 in  *)
(* the helpers that mirror Python's slicing.                               *)
(***************************************************************************)
EXTENDS Integers, Sequences, FiniteSets, TLC

\* ------------------------------------------------------------------ bounds

MaxTextLen == 5
MaxChunkSize == 3
MaxOverlap == 3
MaxCalls == 2
MaxTopK == 2
MaxParagraphTextLen == 7
MaxParagraphChunkSize == 4
MaxPolls == 3
MaxEdits == 2
MaxSyncs == 2

\* ------------------------------------------------------- program constants

\* chunking.py:89, the backward search window of the word-boundary cut
LookBack == 50

\* ---------------------------------------------------------------- helpers

NL == "\n"
SP == " "
NULL == "NULL"

Min(a, b) == IF a < b THEN a ELSE b
Max(a, b) == IF a > b THEN a ELSE b
Range(s) == {s[i] : i \in 1..Len(s)}

\* str.isspace over the alphabet of the model
IsSpace(c) == c \in {SP, NL}

\* Python's normalisation of a slice index i for a sequence of length n
PyIndex(i, n) == IF i < 0 THEN Max(i + n, 0) ELSE Min(i, n)

\* text[a:b]
Slice(text, a, b) ==
    LET lo == PyIndex(a, Len(text))
        hi == PyIndex(b, Len(text))
    IN  IF lo >= hi THEN <<>> ELSE SubSeq(text, lo + 1, hi)

\* text.rfind(ch, a, b): the highest 0-based index in [a, b) holding ch, or -1
RFind(text, ch, a, b) ==
    LET lo == PyIndex(a, Len(text))
        hi == PyIndex(b, Len(text))
        hits == {i \in lo..(hi - 1) : text[i + 1] = ch}
    IN  IF hits = {} THEN -1 ELSE CHOOSE i \in hits : \A j \in hits : j <= i

\* text.strip()
Strip(text) ==
    LET keep == {i \in 1..Len(text) : ~IsSpace(text[i])}
    IN  IF keep = {} THEN <<>>
        ELSE SubSeq(text, CHOOSE i \in keep : \A j \in keep : i <= j,
                          CHOOSE i \in keep : \A j \in keep : j <= i)

\* text.replace("\n", " ")
ReplaceNewlines(text) == [i \in 1..Len(text) |-> IF text[i] = NL THEN SP ELSE text[i]]

RECURSIVE JoinWith(_, _)
\* sep.join(parts)
JoinWith(parts, sep) ==
    IF parts = <<>> THEN <<>>
    ELSE IF Len(parts) = 1 THEN parts[1]
    ELSE parts[1] \o sep \o JoinWith(Tail(parts), sep)

\* --------------------------------------------------- chunking.py: fixed_chars

\* chunk_by_fixed_chars_body without the test of lines 109-110
chunk_by_fixed_chars_body_Unguarded(text, chunk_size, overlap, st) ==
    LET text_length == Len(text)
        start == st.start
        end0 == Min(start + chunk_size, text_length)
        search_start == Max(start, end0 - LookBack)
        last_space == RFind(text, SP, search_start, end0)
        end == IF end0 < text_length /\ last_space > start
               THEN last_space + 1 ELSE end0
        chunk_text == Strip(Slice(text, start, end))
        chunks == IF chunk_text # <<>>
                  THEN Append(st.chunks,
                              [text |-> chunk_text, start_index |-> start,
                               end_index |-> end, chunk_number |-> st.chunk_number,
                               metadata |-> [strategy |-> "fixed_chars",
                                             chunk_size |-> chunk_size]])
                  ELSE st.chunks
        chunk_number == IF chunk_text # <<>> THEN st.chunk_number + 1
                        ELSE st.chunk_number
        moved == IF overlap > 0 THEN end - overlap ELSE end
        stuck == FALSE
    IN  [start |-> IF stuck THEN end ELSE moved,
         chunks |-> chunks,
         chunk_number |-> chunk_number]

\* One iteration of the while loop of _chunk_by_fixed_chars, from the loop
\* state st = [start, chunks, chunk_number] to the state after the body.
chunk_by_fixed_chars_body(text, chunk_size, overlap, st) ==
    LET text_length == Len(text)
        start == st.start
        end0 == Min(start + chunk_size, text_length)
        search_start == Max(start, end0 - LookBack)
        last_space == RFind(text, SP, search_start, end0)
        end == IF end0 < text_length /\ last_space > start
               THEN last_space + 1 ELSE end0
        chunk_text == Strip(Slice(text, start, end))
        chunks == IF chunk_text # <<>>
                  THEN Append(st.chunks,
                              [text |-> chunk_text, start_index |-> start,
                               end_index |-> end, chunk_number |-> st.chunk_number,
                               metadata |-> [strategy |-> "fixed_chars",
                                             chunk_size |-> chunk_size]])
                  ELSE st.chunks
        chunk_number == IF chunk_text # <<>> THEN st.chunk_number + 1
                        ELSE st.chunk_number
        moved == IF overlap > 0 THEN end - overlap ELSE end
        stuck == IF chunks # <<>> THEN moved <= chunks[Len(chunks)].start_index
                 ELSE FALSE
    IN  [start |-> IF stuck THEN end ELSE moved,
         chunks |-> chunks,
         chunk_number |-> chunk_number]

\* ---------------------------------------------------- chunking.py: paragraphs

\* The end (0-based index of the closing newline) of the match of \n\s*\n
\* that starts at the newline at index i, or -1 when there is none: \s* is
\* greedy, so the match closes at the last newline of the whitespace run.
ParagraphBreakEnd(text, i) ==
    LET n == Len(text)
        run == {r \in i..(n - 1) : \A k \in i..r : IsSpace(text[k + 1])}
        closes == {j \in run : j > i /\ text[j + 1] = NL}
    IN  IF closes = {} THEN -1 ELSE CHOOSE j \in closes : \A k \in closes : k <= j

RECURSIVE SplitParagraphsFrom(_, _, _)
SplitParagraphsFrom(text, i, from) ==
    IF i >= Len(text) THEN <<Slice(text, from, Len(text))>>
    ELSE IF text[i + 1] = NL /\ ParagraphBreakEnd(text, i) # -1
         THEN <<Slice(text, from, i)>>
              \o SplitParagraphsFrom(text, ParagraphBreakEnd(text, i) + 1,
                                     ParagraphBreakEnd(text, i) + 1)
         ELSE SplitParagraphsFrom(text, i + 1, from)

\* re.split(r'\n\s*\n', text)
SplitParagraphs(text) == SplitParagraphsFrom(text, 0, 0)

ParagraphChunk(current_chunk, start_index, chunk_number) ==
    LET chunk_text == JoinWith(current_chunk, <<NL, NL>>)
    IN  [text |-> chunk_text, start_index |-> start_index,
         end_index |-> start_index + Len(chunk_text),
         chunk_number |-> chunk_number,
         metadata |-> [strategy |-> "paragraphs",
                       paragraph_count |-> Len(current_chunk)]]

\* ParagraphOverflows with the size test never true
ParagraphOverflows_Never(current_chunk, current_length, para_length, max_chars) ==
    FALSE

\* Whether the loop closes the current chunk before the paragraph
ParagraphOverflows(current_chunk, current_length, para_length, max_chars) ==
    current_chunk # <<>> /\ current_length + para_length + 1 > max_chars

RECURSIVE ParagraphLoop(_, _, _)
\* The for loop of _chunk_by_paragraphs over paragraphs, from the loop state
\* st = [chunks, current_chunk, current_length, start_index, chunk_number]
ParagraphLoop(paragraphs, max_chars, st) ==
    IF paragraphs = <<>> THEN st
    ELSE LET para == Strip(Head(paragraphs))
             para_length == Len(para)
             closed == ParagraphChunk(st.current_chunk, st.start_index,
                                      st.chunk_number)
         IN  IF para = <<>> THEN ParagraphLoop(Tail(paragraphs), max_chars, st)
             ELSE IF ParagraphOverflows(st.current_chunk, st.current_length,
                                        para_length, max_chars)
             THEN ParagraphLoop(Tail(paragraphs), max_chars,
                    [chunks |-> Append(st.chunks, closed),
                     current_chunk |-> <<para>>,
                     current_length |-> para_length,
                     start_index |-> st.start_index + Len(closed.text) + 2,
                     chunk_number |-> st.chunk_number + 1])
             ELSE ParagraphLoop(Tail(paragraphs), max_chars,
                    [st EXCEPT !.current_chunk = Append(@, para),
                               !.current_length = @ + para_length + 2])

\* _chunk_by_paragraphs(text, max_chars)
chunk_by_paragraphs(text, max_chars) ==
    LET st == ParagraphLoop(SplitParagraphs(text), max_chars,
                  [chunks |-> <<>>, current_chunk |-> <<>>, current_length |-> 0,
                   start_index |-> 0, chunk_number |-> 0])
    IN  IF st.current_chunk # <<>>
        THEN Append(st.chunks,
                    ParagraphChunk(st.current_chunk, st.start_index, st.chunk_number))
        ELSE st.chunks

\* ----------------------------------------------------- chunking.py: sentences

Whitespace == {SP, NL}
SentenceEnds == {".", "!", "?"}

\* The first index at or after i whose character is not of the class
\* (Len(text) when there is none)
RunEnd(text, i, class) ==
    LET stops == {k \in i..(Len(text) - 1) : text[k + 1] \notin class}
    IN  IF stops = {} THEN Max(i, Len(text))
        ELSE CHOOSE k \in stops : \A m \in stops : k <= m

RECURSIVE SplitSentencesFrom(_, _, _)
SplitSentencesFrom(text, i, from) ==
    IF i >= Len(text) THEN <<Slice(text, from, Len(text))>>
    ELSE LET p == RunEnd(text, i, SentenceEnds)
             q == RunEnd(text, p, Whitespace)
         IN  IF text[i + 1] \in SentenceEnds /\ q > p
             THEN <<Slice(text, from, i), Slice(text, i, q)>>
                  \o SplitSentencesFrom(text, q, q)
             ELSE SplitSentencesFrom(text, i + 1, from)

\* re.compile(r'([.!?]+[\s\n]+)').split(text): texts and delimiters in turn
SplitSentences(text) == SplitSentencesFrom(text, 0, 0)

RECURSIVE SentencesOfParts(_, _)
\* The loop over range(0, len(parts) - 1, 2) from index i (0-based)
SentencesOfParts(parts, i) ==
    IF i >= Len(parts) - 1 THEN <<>>
    ELSE LET sentence == Strip(parts[i + 1] \o parts[i + 2])
         IN  (IF sentence # <<>> THEN <<sentence>> ELSE <<>>)
             \o SentencesOfParts(parts, i + 2)

\* SentencesOf without the part after the last delimiter (lines 206-207)
SentencesOf_NoTrailingFragment(text) == SentencesOfParts(SplitSentences(text), 0)

\* The sentences of the text, the part after the last delimiter included
SentencesOf(text) ==
    LET parts == SplitSentences(text)
        last == Strip(parts[Len(parts)])
    IN  SentencesOfParts(parts, 0)
        \o (IF Len(parts) % 2 = 1 /\ last # <<>> THEN <<last>> ELSE <<>>)

RECURSIVE SentenceLoop(_, _, _, _, _)
\* The loop over range(0, len(sentences), sentences_per_chunk) from index i
SentenceLoop(sentences, sentences_per_chunk, i, chunk_number, start_index) ==
    IF i >= Len(sentences) THEN <<>>
    ELSE LET chunk_sentences == Slice(sentences, i, i + sentences_per_chunk)
             chunk_text == JoinWith(chunk_sentences, <<SP>>)
         IN  <<[text |-> chunk_text, start_index |-> start_index,
                end_index |-> start_index + Len(chunk_text),
                chunk_number |-> chunk_number,
                metadata |-> [strategy |-> "sentences",
                              sentence_count |-> Len(chunk_sentences)]]>>
             \o SentenceLoop(sentences, sentences_per_chunk, i + sentences_per_chunk,
                             chunk_number + 1, start_index + Len(chunk_text) + 1)

\* _chunk_by_sentences(text, sentences_per_chunk): range() refuses a step of
\* 0 and is empty for a negative step
chunk_by_sentences(text, sentences_per_chunk) ==
    IF sentences_per_chunk = 0 THEN [raised |-> "ValueError", chunks |-> <<>>]
    ELSE IF sentences_per_chunk < 0 THEN [raised |-> "", chunks |-> <<>>]
    ELSE [raised |-> "",
          chunks |-> SentenceLoop(SentencesOf(text), sentences_per_chunk, 0, 0, 0)]

\* -------------------------------------------------------- chunking.py: hybrid

\* chunking.py:271, the sentences per sub-segment of a re-split
HybridSentencesPerChunk == 3

RECURSIVE HybridLoop_KeepNumbers(_, _, _)
\* HybridLoop without the assignments to chunk_number (lines 264 and 274)
HybridLoop_KeepNumbers(para_chunks, max_chunk_size, chunk_number) ==
    IF para_chunks = <<>> THEN <<>>
    ELSE LET chunk == Head(para_chunks)
             sentence_chunks ==
                 chunk_by_sentences(chunk.text, HybridSentencesPerChunk).chunks
         IN  IF Len(chunk.text) <= max_chunk_size
             THEN <<chunk>>
                  \o HybridLoop_KeepNumbers(Tail(para_chunks), max_chunk_size,
                                            chunk_number + 1)
             ELSE [i \in 1..Len(sentence_chunks) |->
                      [sentence_chunks[i] EXCEPT !.metadata.strategy = "hybrid"]]
                  \o HybridLoop_KeepNumbers(Tail(para_chunks), max_chunk_size,
                                            chunk_number + Len(sentence_chunks))

RECURSIVE HybridLoop(_, _, _)
\* The for loop of chunk_document_hybrid over para_chunks: a chunk within
\* max_chunk_size is kept and renumbered, a larger one is replaced by its
\* sentence chunks, renumbered and tagged
HybridLoop(para_chunks, max_chunk_size, chunk_number) ==
    IF para_chunks = <<>> THEN <<>>
    ELSE LET chunk == Head(para_chunks)
             sentence_chunks ==
                 chunk_by_sentences(chunk.text, HybridSentencesPerChunk).chunks
         IN  IF Len(chunk.text) <= max_chunk_size
             THEN <<[chunk EXCEPT !.chunk_number = chunk_number]>>
                  \o HybridLoop(Tail(para_chunks), max_chunk_size, chunk_number + 1)
             ELSE [i \in 1..Len(sentence_chunks) |->
                      [sentence_chunks[i] EXCEPT
                           !.chunk_number = chunk_number + i - 1,
                           !.metadata.strategy = "hybrid"]]
                  \o HybridLoop(Tail(para_chunks), max_chunk_size,
                                chunk_number + Len(sentence_chunks))

\* chunk_document_hybrid(text, target_chunk_size, max_chunk_size, overlap);
\* overlap is not used
chunk_document_hybrid(text, target_chunk_size, max_chunk_size, overlap) ==
    [raised |-> "",
     chunks |-> HybridLoop(chunk_by_paragraphs(text, target_chunk_size),
                           max_chunk_size, 0)]

\* ------------------------------------------------- chunking.py: chunk_document

\* chunking.py:35, the default overlap of chunk_document, which
\* chunk_and_embed_document never overrides
DefaultOverlap == 50

\* Iterations after which a run of the fixed_chars loop has repeated a loop
\* state (start ranges over -overlap..Len(text), the chunk count over
\* 0..Len(text)), so that the loop never exits
FixedCharsFuel(text, overlap) == (Len(text) + overlap + 2) * (Len(text) + 1)

RECURSIVE FixedCharsRun(_, _, _, _, _)
FixedCharsRun(text, chunk_size, overlap, st, fuel) ==
    IF ~(st.start < Len(text)) THEN [raised |-> "", chunks |-> st.chunks]
    ELSE IF fuel = 0 THEN [raised |-> "hang", chunks |-> <<>>]
    ELSE FixedCharsRun(text, chunk_size, overlap,
                       chunk_by_fixed_chars_body(text, chunk_size, overlap, st),
                       fuel - 1)

\* _chunk_by_fixed_chars(text, chunk_size, overlap)
chunk_by_fixed_chars(text, chunk_size, overlap) ==
    FixedCharsRun(text, chunk_size, overlap,
                  [start |-> 0, chunks |-> <<>>, chunk_number |-> 0],
                  FixedCharsFuel(text, overlap))

\* chunk_document without the test of lines 52-53
chunk_document_Unguarded(text, strategy, chunk_size, overlap) ==
    IF strategy = "fixed_chars"
         THEN chunk_by_fixed_chars(text, chunk_size, overlap)
    ELSE IF strategy = "paragraphs"
         THEN [raised |-> "", chunks |-> chunk_by_paragraphs(text, chunk_size)]
    ELSE IF strategy = "sentences"
         THEN chunk_by_sentences(text, chunk_size)
    ELSE [raised |-> "ValueError", chunks |-> <<>>]

\* chunk_document(text, strategy, chunk_size, overlap): the chunks, or the
\* exception the call ends with
chunk_document(text, strategy, chunk_size, overlap) ==
    IF text = <<>> \/ Strip(text) = <<>> THEN [raised |-> "", chunks |-> <<>>]
    ELSE IF strategy = "fixed_chars"
         THEN chunk_by_fixed_chars(text, chunk_size, overlap)
    ELSE IF strategy = "paragraphs"
         THEN [raised |-> "", chunks |-> chunk_by_paragraphs(text, chunk_size)]
    ELSE IF strategy = "sentences"
         THEN chunk_by_sentences(text, chunk_size)
    ELSE [raised |-> "ValueError", chunks |-> <<>>]

\* -------------------------------------------------------- the embedding provider

\* The text generate_embedding sends: text.replace("\n", " ").strip()
EmbeddingInput(text) == Strip(ReplaceNewlines(text))

\* The vector the provider answers with when it answers: a function of the
\* text sent, here of its first character
ProviderVector(sent) ==
    IF sent[1] = "a" THEN <<1, 0>>
    ELSE IF sent[1] = "b" THEN <<0, 1>>
    ELSE <<1, 1>>

\* pickle.dumps / pickle.loads of the embedding array
PickleDumps(vector) == <<"pickle", vector>>
PickleLoads(blob) == blob[2]

\* A NULL embedding column
NullBlob == <<>>

\* json.dumps of the chunk metadata
JsonDumps(metadata) == [json |-> metadata]

\* --------------------------------------------- database.py: document_chunks

VARIABLES
    document_chunks,  \* the rows of table document_chunks, in rowid order
    lastrowid,        \* the AUTOINCREMENT counter of document_chunks
    writer,           \* per caller of chunk_and_embed_document: its frame
    calls,            \* the number of chunk_and_embed_document calls made
    got,              \* what the last get_document_chunks returned
    retrieved,        \* what the last retrieve_relevant_chunks returned
    fx,               \* the frame of a chunk_document(.., "fixed_chars") call
    ck,               \* the frame of a call of the chunker
    ctx,              \* the frame of a build_rag_context call or of its caller
    tst,              \* the frame of the store round trip of test_rag_system
    ml,               \* the MastodonListener, its tables and the notifications
    nl                \* the NotionListener and the pages it polls

vars == <<document_chunks, lastrowid, writer, calls, got, retrieved, fx, ck, ctx, tst, ml, nl>>

Writers == {1, 2}
SourceIds == {"page"}
SourceTypes == {"notion", "article"}

SameKey(r, source_id, source_type) ==
    r.source_id = source_id /\ r.source_type = source_type

\* DeleteChunks with source_type left out of the WHERE clause
DeleteChunks_BySourceId(rows, source_id, source_type) ==
    SelectSeq(rows, LAMBDA r : r.source_id # source_id)

\* DeleteChunks with the DELETE left out
DeleteChunks_Omitted(rows, source_id, source_type) == rows

\* DELETE FROM document_chunks WHERE source_id = ? AND source_type = ?
DeleteChunks(rows, source_id, source_type) ==
    SelectSeq(rows, LAMBDA r : ~SameKey(r, source_id, source_type))

\* save_document_chunk: INSERT INTO document_chunks, the row getting rowid id
save_document_chunk(rows, id, source_id, source_type, chunk_text, chunk_number, chunk_strategy, embedding, metadata) ==
    Append(rows, [id |-> id, source_id |-> source_id, source_type |-> source_type,
                  chunk_text |-> chunk_text, chunk_number |-> chunk_number,
                  chunk_strategy |-> chunk_strategy, embedding |-> embedding,
                  metadata |-> metadata])

\* OrderByChunkNumber with the ORDER BY clause left out: rowid order
OrderByChunkNumber_Omitted(rows) == rows

RECURSIVE OrderByChunkNumber(_)
\* ORDER BY chunk_number over rows in rowid order (rows of equal chunk_number
\* keep their rowid order)
OrderByChunkNumber(rows) ==
    IF rows = <<>> THEN <<>>
    ELSE LET least == CHOOSE i \in 1..Len(rows) :
                          \A j \in 1..Len(rows) :
                              \/ rows[i].chunk_number < rows[j].chunk_number
                              \/ rows[i].chunk_number = rows[j].chunk_number /\ i <= j
         IN  <<rows[least]>>
             \o OrderByChunkNumber(SubSeq(rows, 1, least - 1)
                                   \o SubSeq(rows, least + 1, Len(rows)))

\* get_document_chunks(source_id, source_type)
get_document_chunks(rows, source_id, source_type) ==
    LET hit == OrderByChunkNumber(
                   SelectSeq(rows, LAMBDA r : SameKey(r, source_id, source_type)))
    IN  [i \in 1..Len(hit) |->
            [id |-> hit[i].id, chunk_text |-> hit[i].chunk_text,
             chunk_number |-> hit[i].chunk_number,
             chunk_strategy |-> hit[i].chunk_strategy,
             metadata |-> hit[i].metadata]]

\* ------------------------------------------- rag.py: chunk_and_embed_document

\* The (text, strategy, chunk_size) arguments handed to
\* chunk_and_embed_document: an empty document, documents of one and of two
\* paragraphs, and a strategy chunk_document does not know
SyncInputs ==
    { [text |-> <<>>, strategy |-> "paragraphs", chunk_size |-> 1],
      [text |-> <<"a">>, strategy |-> "paragraphs", chunk_size |-> 1],
      [text |-> <<"b", NL, SP, NL, "a">>, strategy |-> "paragraphs", chunk_size |-> 1],
      [text |-> <<"a">>, strategy |-> "semantic", chunk_size |-> 1] }

\* The frames of the readers before any read; a read's frame is gone once a
\* writer moves on
NoGet ==
    [source_id |-> NULL, source_type |-> NULL, rows |-> <<>>, during |-> {},
     old |-> <<>>, expected |-> <<>>]

NoRetrieval == [query |-> <<>>, source_type |-> NULL, top_k |-> 0,
                raised |-> "", rows |-> <<>>, results |-> <<>>]

IdleWriter ==
    [pc |-> "idle", source_id |-> NULL, source_type |-> NULL, strategy |-> NULL,
     chunks |-> <<>>, i |-> 0, chunk_ids |-> <<>>, failed |-> {},
     old |-> <<>>, clean |-> FALSE]

\* AfterChunkException with break in place of continue
AfterChunkException_Break(i, n) == n + 1

\* The loop position after the except clause of the for loop: continue
AfterChunkException(i, n) == i + 1

\* Where the frame stands once chunk i of n has been dealt with
LoopPc(next, n) == IF next > n THEN "done" ELSE "embed"

\* The call up to the first embedding: the DELETE transaction, then the chunker.
\* A caller is free to call when it is in no call: its frame is that of its
\* last call, which returned chunk_ids ("done") or ended with the chunker's
\* exception ("raised").
ChunkAndEmbedCall(w, source_id, source_type, text, strategy, chunk_size) ==
    /\ writer[w].pc \in {"idle", "done", "raised"}
    /\ calls < MaxCalls
    /\ LET res == chunk_document(text, strategy, chunk_size, DefaultOverlap)
           busy == \E v \in Writers \ {w} :
                       /\ writer[v].pc = "embed"
                       /\ SameKey(writer[v], source_id, source_type)
           mine == [pc |-> IF res.raised # "" THEN "raised"
                           ELSE IF res.chunks = <<>> THEN "done" ELSE "embed",
                    source_id |-> source_id, source_type |-> source_type,
                    strategy |-> strategy, chunks |-> res.chunks, i |-> 1,
                    chunk_ids |-> <<>>, failed |-> {},
                    old |-> get_document_chunks(document_chunks, source_id,
                                                source_type),
                    clean |-> ~busy]
       IN  /\ document_chunks' = DeleteChunks(document_chunks, source_id, source_type)
           /\ writer' = [v \in Writers |->
                            IF v = w THEN mine
                            ELSE IF SameKey(writer[v], source_id, source_type)
                                 THEN [writer[v] EXCEPT !.clean = FALSE]
                                 ELSE writer[v]]
    /\ calls' = calls + 1
    /\ got' = NoGet
    /\ retrieved' = NoRetrieval
    /\ UNCHANGED <<lastrowid, fx, ck, ctx, tst, ml, nl>>

\* One pass of the for loop in which generate_embedding answers: the chunk
\* is saved in its own transaction
EmbedAndSave(w) ==
    /\ writer[w].pc = "embed"
    /\ LET f == writer[w]
           chunk == f.chunks[f.i]
           sent == EmbeddingInput(chunk.text)
       IN  /\ sent # <<>>
           /\ document_chunks' =
                  save_document_chunk(document_chunks, lastrowid + 1, f.source_id,
                                      f.source_type, chunk.text, chunk.chunk_number,
                                      f.strategy, PickleDumps(ProviderVector(sent)),
                                      JsonDumps(chunk.metadata))
           /\ lastrowid' = lastrowid + 1
           /\ writer' = [writer EXCEPT
                            ![w].chunk_ids = Append(@, lastrowid + 1),
                            ![w].i = f.i + 1,
                            ![w].pc = LoopPc(f.i + 1, Len(f.chunks))]
    /\ got' = NoGet
    /\ retrieved' = NoRetrieval
    /\ UNCHANGED <<calls, fx, ck, ctx, tst, ml, nl>>

\* One pass of the for loop in which generate_embedding raises: the except
\* clause prints a warning and the loop goes on
EmbedFails(w) ==
    /\ writer[w].pc = "embed"
    /\ LET f == writer[w]
           next == AfterChunkException(f.i, Len(f.chunks))
       IN  writer' = [writer EXCEPT
                         ![w].failed = @ \cup {f.i},
                         ![w].i = next,
                         ![w].pc = LoopPc(next, Len(f.chunks))]
    /\ got' = NoGet
    /\ retrieved' = NoRetrieval
    /\ UNCHANGED <<document_chunks, lastrowid, calls, fx, ck, ctx, tst, ml, nl>>

\* ------------------------------------- database.py: a chunk saved on its own

\* The chunk test_rag_system stores: chunk_document(doc, "sentences", 1)
SavedAloneChunk == chunk_document(<<"a">>, "sentences", 1, DefaultOverlap).chunks[1]

\* save_document_chunk called without an embedding (the parameter defaults to
\* None): the row is inserted with a NULL embedding column
SaveChunkWithoutEmbedding(source_id, source_type) ==
    /\ calls < MaxCalls
    /\ document_chunks' =
           save_document_chunk(document_chunks, lastrowid + 1, source_id,
                               source_type, SavedAloneChunk.text,
                               SavedAloneChunk.chunk_number, "sentences", NullBlob,
                               JsonDumps(SavedAloneChunk.metadata))
    /\ lastrowid' = lastrowid + 1
    /\ calls' = calls + 1
    /\ got' = NoGet
    /\ retrieved' = NoRetrieval
    /\ UNCHANGED <<writer, fx, ck, ctx, tst, ml, nl>>

\* ------------------------------------------------------------------ readers

\* A get_document_chunks call of a reader; beside the rows returned the frame
\* keeps which clean re-syncs of the key were under way, what the key held
\* before them and what their chunker produced
GetDocumentChunks(source_id, source_type) ==
    LET during == {w \in Writers : /\ writer[w].pc = "embed"
                                   /\ writer[w].clean
                                   /\ SameKey(writer[w], source_id, source_type)}
        sole == CHOOSE w \in during : TRUE
    IN  /\ got' = [source_id |-> source_id, source_type |-> source_type,
                   rows |-> get_document_chunks(document_chunks, source_id,
                                                source_type),
                   during |-> during,
                   old |-> IF during = {} THEN <<>> ELSE writer[sole].old,
                   expected |-> IF during = {} THEN <<>> ELSE writer[sole].chunks]
        /\ UNCHANGED <<document_chunks, lastrowid, writer, calls, retrieved, fx, ck, ctx, tst, ml, nl>>

\* ------------------------------------------- rag.py: retrieve_relevant_chunks

Dot(a, b) == a[1] * b[1] + a[2] * b[2]

\* cosine_similarity(a, b) = dot(a, b) / (norm(a) * norm(b)), kept exact as
\* the pair (dot, norm(a)^2 * norm(b)^2)
cosine_similarity(a, b) == [dot |-> Dot(a, b), norms2 |-> Dot(a, a) * Dot(b, b)]

SignedSquare(x) == IF x < 0 THEN 0 - x * x ELSE x * x

\* s < t as numbers
SimilarityLess(s, t) ==
    SignedSquare(s.dot) * t.norms2 < SignedSquare(t.dot) * s.norms2
SimilarityEqual(s, t) == ~SimilarityLess(s, t) /\ ~SimilarityLess(t, s)

\* ScanChunks with the source_type condition left out of the WHERE clause
ScanChunks_Unfiltered(rows, source_type) ==
    SelectSeq(rows, LAMBDA r : r.embedding # NullBlob)

\* SELECT ... FROM document_chunks WHERE [source_type = ? AND] embedding IS NOT
\* NULL; the filter applies when source_type is truthy
ScanChunks(rows, source_type) ==
    SelectSeq(rows, LAMBDA r : /\ r.embedding # NullBlob
                               /\ source_type \in {NULL, ""}
                                    \/ r.source_type = source_type)

\* The result entry of a scanned row
ScoredChunk(query_embedding, row) ==
    [id |-> row.id, source_id |-> row.source_id, source_type |-> row.source_type,
     chunk_text |-> row.chunk_text, chunk_number |-> row.chunk_number,
     chunk_strategy |-> row.chunk_strategy, metadata |-> row.metadata.json,
     similarity |-> cosine_similarity(query_embedding, PickleLoads(row.embedding))]

RECURSIVE InsertDescending(_, _)
\* x placed behind every entry of the descending list whose similarity is
\* not less than its own
InsertDescending(sorted, x) ==
    IF sorted = <<>> THEN <<x>>
    ELSE IF SimilarityLess(Head(sorted).similarity, x.similarity)
         THEN <<x>> \o sorted
         ELSE <<Head(sorted)>> \o InsertDescending(Tail(sorted), x)

RECURSIVE SortFrom(_, _)
SortFrom(sorted, rest) ==
    IF rest = <<>> THEN sorted
    ELSE SortFrom(InsertDescending(sorted, Head(rest)), Tail(rest))

\* SortBySimilarity with the sort left out
SortBySimilarity_Omitted(results) == results

\* results.sort(key=lambda x: x["similarity"], reverse=True): a stable sort,
\* entries of equal similarity keep the order they had
SortBySimilarity(results) == SortFrom(<<>>, results)

\* results[:top_k]
TopSlice(results, top_k) == Slice(results, 0, top_k)

\* retrieve_relevant_chunks once the query is embedded
RankChunks(rows, query_embedding, source_type, top_k) ==
    LET scanned == ScanChunks(rows, source_type)
        results == [i \in 1..Len(scanned) |-> ScoredChunk(query_embedding, scanned[i])]
    IN  IF scanned = <<>> THEN <<>>
        ELSE TopSlice(SortBySimilarity(results), top_k)

Queries == {<<"a">>, <<"c">>, <<SP>>}
TopKs == (0 - MaxTopK)..MaxTopK

\* A retrieve_relevant_chunks call in which the provider embeds the query (or
\* generate_embedding refuses an empty query): one read transaction
RetrieveRelevantChunks(query, source_type, top_k) ==
    LET sent == EmbeddingInput(query)
    IN  /\ retrieved' =
              IF sent = <<>>
              THEN [NoRetrieval EXCEPT !.query = query, !.raised = "ValueError"]
              ELSE [query |-> query, source_type |-> source_type, top_k |-> top_k,
                    raised |-> "",
                    rows |-> ScanChunks(document_chunks, source_type),
                    results |-> RankChunks(document_chunks, ProviderVector(sent),
                                           source_type, top_k)]
        /\ UNCHANGED <<document_chunks, lastrowid, writer, calls, got, fx, ck, ctx, tst, ml, nl>>

\* A retrieve_relevant_chunks call in which the provider fails on the query:
\* generate_embedding raises before the table is read
RetrieveProviderFails(query) ==
    /\ EmbeddingInput(query) # <<>>
    /\ retrieved' = [NoRetrieval EXCEPT !.query = query, !.raised = "RuntimeError"]
    /\ UNCHANGED <<document_chunks, lastrowid, writer, calls, got, fx, ck, ctx, tst, ml, nl>>

\* -------------------------------- chunking.py: a fixed_chars call, step by step

IdleFx == [pc |-> "idle", text |-> <<>>, chunk_size |-> 0, overlap |-> 0,
           start |-> 0, chunks |-> <<>>, chunk_number |-> 0, result |-> <<>>,
           odd |-> FALSE]

Alphabet == {"a", SP}
RECURSIVE TextsOfLength(_)
TextsOfLength(n) ==
    IF n = 0 THEN {<<>>}
    ELSE {Append(t, c) : t \in TextsOfLength(n - 1), c \in Alphabet}
FixedTexts == UNION {TextsOfLength(n) : n \in 0..MaxTextLen}

\* chunk_document(text, "fixed_chars", chunk_size, overlap) up to the loop
FixedCharsCall ==
    /\ fx.pc = "call"
    /\ fx' = IF fx.text = <<>> \/ Strip(fx.text) = <<>>
             THEN [fx EXCEPT !.pc = "done", !.result = <<>>]
             ELSE [fx EXCEPT !.pc = "loop"]
    /\ UNCHANGED <<document_chunks, lastrowid, writer, calls, got, retrieved, ck, ctx, tst, ml, nl>>

\* while start < text_length: one iteration (odd tells an odd number of
\* iterations from an even one, so that an iteration is a step even when it
\* leaves start and chunks as they were)
FixedCharsIterate ==
    /\ fx.pc = "loop"
    /\ fx.start < Len(fx.text)
    /\ \E st \in {chunk_by_fixed_chars_body(fx.text, fx.chunk_size, fx.overlap,
                     [start |-> fx.start, chunks |-> fx.chunks,
                      chunk_number |-> fx.chunk_number])} :
           fx' = [fx EXCEPT !.start = st.start, !.chunks = st.chunks,
                            !.chunk_number = st.chunk_number, !.odd = ~fx.odd]
    /\ UNCHANGED <<document_chunks, lastrowid, writer, calls, got, retrieved, ck, ctx, tst, ml, nl>>

\* the loop exits: return chunks
FixedCharsReturn ==
    /\ fx.pc = "loop"
    /\ ~(fx.start < Len(fx.text))
    /\ fx' = [fx EXCEPT !.pc = "done", !.result = fx.chunks]
    /\ UNCHANGED <<document_chunks, lastrowid, writer, calls, got, retrieved, ck, ctx, tst, ml, nl>>

\* --------------------------------------------- chunking.py: calls of the chunker

IdleCk == [pc |-> "idle", fn |-> NULL, text |-> <<>>, strategy |-> NULL,
           chunk_size |-> 0, overlap |-> 0, max_chunk_size |-> 0,
           raised |-> "", chunks |-> <<>>]

RECURSIVE TextsOver(_, _)
\* The texts of at most n characters over the alphabet
TextsOver(alphabet, n) ==
    IF n = 0 THEN {<<>>}
    ELSE LET shorter == TextsOver(alphabet, n - 1)
         IN  shorter \cup {Append(t, c) : t \in shorter, c \in alphabet}

ParagraphTexts == TextsOver({"a", SP, NL}, MaxParagraphTextLen)
SentenceTexts == TextsOver({"a", ".", SP}, MaxTextLen)
HybridTexts == TextsOver({"a", ".", SP, NL}, MaxTextLen)

\* A call chunk_document(text, strategy, chunk_size, overlap) about to run
DocumentCall(text, strategy, chunk_size, overlap) ==
    [IdleCk EXCEPT !.pc = "call", !.fn = "chunk_document", !.text = text,
                   !.strategy = strategy, !.chunk_size = chunk_size,
                   !.overlap = overlap]

\* A call chunk_document_hybrid(text, target_chunk_size, max_chunk_size)
HybridCall(text, target_chunk_size, max_chunk_size) ==
    [IdleCk EXCEPT !.pc = "call", !.fn = "chunk_document_hybrid", !.text = text,
                   !.chunk_size = target_chunk_size,
                   !.max_chunk_size = max_chunk_size, !.overlap = DefaultOverlap]

\* The sentence-count scenario of the design, and a document whose first
\* paragraph holds four sentences
ScenarioText == <<"A", ".", SP, "B", ".", SP, "C", ".", SP, "D", ".">>
LongParagraphText ==
    <<"a", ".", SP, "a", ".", SP, "a", ".", SP, "a", NL, NL, "a">>

\* The frame holds one of the calls made: every strategy chunk_document
\* knows and one it does not, and the hybrid chunker
ChunkCalls ==
    \/ \E t \in FixedTexts, s \in 1..MaxChunkSize, o \in 0..MaxOverlap :
           ck = DocumentCall(t, "fixed_chars", s, o)
    \/ \E t \in ParagraphTexts, s \in 1..MaxParagraphChunkSize :
           ck = DocumentCall(t, "paragraphs", s, DefaultOverlap)
    \/ \E t \in SentenceTexts \cup {ScenarioText}, s \in 0..MaxChunkSize :
           ck = DocumentCall(t, "sentences", s, DefaultOverlap)
    \/ \E t \in FixedTexts : ck = DocumentCall(t, "semantic", 1, DefaultOverlap)
    \/ \E t \in HybridTexts \cup {LongParagraphText},
          s \in 1..MaxChunkSize, m \in 1..MaxChunkSize :
           ck = HybridCall(t, s, m)

\* Where a call stands with the outcome res: a loop that never exits never
\* returns
CallEnds(res) ==
    [ck EXCEPT !.pc = IF res.raised = "hang" THEN "hang" ELSE "done",
               !.raised = res.raised, !.chunks = res.chunks]

\* chunk_document(text, strategy, chunk_size, overlap) runs
ChunkDocumentCall ==
    /\ ck.pc = "call" /\ ck.fn = "chunk_document"
    /\ ck' = CallEnds(chunk_document(ck.text, ck.strategy, ck.chunk_size,
                                     ck.overlap))
    /\ UNCHANGED <<document_chunks, lastrowid, writer, calls, got, retrieved, fx, ctx, tst, ml, nl>>

\* chunk_document_hybrid(text, target_chunk_size, max_chunk_size) runs
ChunkDocumentHybridCall ==
    /\ ck.pc = "call" /\ ck.fn = "chunk_document_hybrid"
    /\ ck' = CallEnds(chunk_document_hybrid(ck.text, ck.chunk_size,
                                            ck.max_chunk_size, ck.overlap))
    /\ UNCHANGED <<document_chunks, lastrowid, writer, calls, got, retrieved, fx, ctx, tst, ml, nl>>

\* --------------------------------------------------- rag.py: build_rag_context

DigitChar(d) == <<"0", "1", "2", "3", "4", "5", "6", "7", "8", "9">>[d + 1]

RECURSIVE Decimal(_)
\* str(i) of an integer i >= 0
Decimal(i) ==
    IF i < 10 THEN <<DigitChar(i)>>
    ELSE Decimal(i \div 10) \o <<DigitChar(i % 10)>>

\* f"[Context {i}]"
ContextLabel(i) == <<"[", "C", "o", "n", "t", "e", "x", "t", SP>> \o Decimal(i) \o <<"]">>

RECURSIVE ContextParts(_, _)
\* context_parts after the passes i.. of the loop over enumerate(chunks, 1)
ContextParts(chunks, i) ==
    IF i > Len(chunks) THEN <<>>
    ELSE <<ContextLabel(i), chunks[i].chunk_text, <<>>>>
         \o ContextParts(chunks, i + 1)

\* retrieve_relevant_chunks(query, top_k, source_type): generate_embedding
\* refuses an empty query, the provider answers or fails, then the table is
\* ranked; rows is what the SELECT scans
retrieve_relevant_chunks(rows, query, answers, source_type, top_k) ==
    LET sent == EmbeddingInput(query)
    IN  IF sent = <<>> THEN [raised |-> "ValueError", rows |-> <<>>, results |-> <<>>]
        ELSE IF ~answers
             THEN [raised |-> "RuntimeError", rows |-> <<>>, results |-> <<>>]
        ELSE [raised |-> "", rows |-> ScanChunks(rows, source_type),
              results |-> RankChunks(rows, ProviderVector(sent), source_type, top_k)]

\* build_rag_context(query, top_k): the retrieval is made without a
\* source_type; its exception leaves the function
build_rag_context(rows, query, answers, top_k) ==
    LET r == retrieve_relevant_chunks(rows, query, answers, NULL, top_k)
    IN  [raised |-> r.raised, rows |-> r.rows, chunks |-> r.results,
         context |-> IF r.results = <<>> THEN <<>>
                     ELSE JoinWith(ContextParts(r.results, 1), <<NL>>)]

\* ----------------------------------------- llm.py: the context of a generation

\* The query generate_social_post asks when it is given none
DefaultRagQuery == <<"W", "h", "a", "t">>

SocialPostTopK == 3
CommentReplyTopK == 2
BrandDocsPrefix == 500

FullBrandDocsHeader == <<"-", "-", "-", SP, "F", "u", "l", "l", SP, "B", "r", "a", "n", "d", SP, "D", "o", "c", "s", SP, "-", "-", "-">>
AdditionalContextHeader == <<"-", "-", "-", SP, "A", "d", "d", "i", "t", "i", "o", "n", "a", "l", SP, "C", "o", "n", "t", "e", "x", "t", SP, "-", "-", "-">>

\* generate_social_post: context after the try block in which
\* build_rag_context returned rag_context
SocialPostContext(rag_context, brand_docs) ==
    IF rag_context # <<>>
    THEN rag_context \o <<NL, NL>> \o FullBrandDocsHeader \o <<NL>> \o brand_docs
    ELSE brand_docs

\* CommentReplyContext with the test of rag_context left out
CommentReplyContext_Unguarded(rag_context, brand_docs) ==
    rag_context \o <<NL, NL>> \o AdditionalContextHeader \o <<NL>>
    \o Slice(brand_docs, 0, BrandDocsPrefix)

\* generate_comment_reply: context after the try block in which
\* build_rag_context returned rag_context
CommentReplyContext(rag_context, brand_docs) ==
    IF rag_context # <<>>
    THEN rag_context \o <<NL, NL>> \o AdditionalContextHeader \o <<NL>>
         \o Slice(brand_docs, 0, BrandDocsPrefix)
    ELSE brand_docs

NoContext ==
    [fn |-> NULL, use_rag |-> FALSE, query |-> <<>>, top_k |-> 0, raised |-> "",
     warned |-> "", rows |-> <<>>, chunks |-> <<>>, rag_context |-> <<>>,
     brand_docs |-> <<>>, context |-> <<>>]

BrandDocs == {<<>>, <<"b">>}
\* rag_query: none given (None or ""), a query, a blank query
RagQueries == {<<>>, <<"a">>, <<SP>>}

\* The frame of a caller in llm.py once context is assembled: use_rag false
\* skips the try block, an exception of build_rag_context is caught and
\* printed as a warning
CallerFrame(fn, built, use_rag, query, top_k, brand_docs, context) ==
    [fn |-> fn, use_rag |-> use_rag, query |-> query, top_k |-> top_k,
     raised |-> "",
     warned |-> IF use_rag THEN built.raised ELSE "",
     rows |-> IF use_rag THEN built.rows ELSE <<>>,
     chunks |-> IF use_rag THEN built.chunks ELSE <<>>,
     rag_context |-> IF use_rag THEN built.context ELSE <<>>,
     brand_docs |-> brand_docs,
     context |-> IF use_rag /\ built.raised = "" THEN context ELSE brand_docs]

\* A build_rag_context(query, top_k) call
BuildRagContext(query, top_k, answers) ==
    /\ \E built \in {build_rag_context(document_chunks, query, answers, top_k)} :
           ctx' = [fn |-> "build_rag_context", use_rag |-> TRUE, query |-> query,
                   top_k |-> top_k, raised |-> built.raised, warned |-> "",
                   rows |-> built.rows, chunks |-> built.chunks,
                   rag_context |-> built.context, brand_docs |-> <<>>,
                   context |-> built.context]
    /\ UNCHANGED <<document_chunks, lastrowid, writer, calls, got, retrieved, fx, ck, tst, ml, nl>>

\* generate_social_post(brand_docs, use_rag, rag_query) up to the prompt
GenerateSocialPost(brand_docs, use_rag, rag_query, answers) ==
    /\ LET query == IF rag_query = <<>> THEN DefaultRagQuery ELSE rag_query
       IN  \E built \in {build_rag_context(document_chunks, query, answers,
                                           SocialPostTopK)} :
               ctx' = CallerFrame("generate_social_post", built, use_rag, query,
                                  SocialPostTopK, brand_docs,
                                  SocialPostContext(built.context, brand_docs))
    /\ UNCHANGED <<document_chunks, lastrowid, writer, calls, got, retrieved, fx, ck, tst, ml, nl>>

\* generate_comment_reply(original_comment, brand_docs, use_rag) up to the
\* prompt
GenerateCommentReply(original_comment, brand_docs, use_rag, answers) ==
    /\ \E built \in {build_rag_context(document_chunks, original_comment, answers,
                                       CommentReplyTopK)} :
           ctx' = CallerFrame("generate_comment_reply", built, use_rag,
                              original_comment, CommentReplyTopK, brand_docs,
                              CommentReplyContext(built.context, brand_docs))
    /\ UNCHANGED <<document_chunks, lastrowid, writer, calls, got, retrieved, fx, ck, tst, ml, nl>>

\* ----------------------------- test_features.py: the round trip of the store

IdleTest ==
    [pc |-> "idle", source_id |-> NULL, source_type |-> NULL, chunks |-> <<>>,
     saved |-> {}, fresh |-> FALSE, retrieved |-> <<>>]

\* The documents chunked: none, one, two and three sentences
TestDocs ==
    { <<>>, <<"a">>, <<"b", ".", SP, "a", ".">>,
      <<"a", ".", SP, "b", ".", SP, "c", ".">> }

\* chunks = chunk_document(sample_doc, strategy="sentences", chunk_size=1);
\* fresh tells whether the key holds no record yet
TestChunk(doc, source_id, source_type) ==
    /\ tst.pc = "idle"
    /\ tst' = [pc |-> "save", source_id |-> source_id, source_type |-> source_type,
               chunks |-> chunk_document(doc, "sentences", 1, DefaultOverlap).chunks,
               saved |-> {},
               fresh |-> get_document_chunks(document_chunks, source_id,
                                             source_type) = <<>>,
               retrieved |-> <<>>]
    /\ UNCHANGED <<document_chunks, lastrowid, writer, calls, got, retrieved, fx, ck, ctx, ml, nl>>

\* One save_document_chunk call of the loop over chunks, without an embedding
\* as the test makes it or with one. The test saves in list order; a caller
\* that saves each chunk once is free in the order, so chunk i is any chunk
\* not saved yet.
TestSaveChunk(i, embedded) ==
    /\ tst.pc = "save"
    /\ i \in (1..Len(tst.chunks)) \ tst.saved
    /\ LET chunk == tst.chunks[i]
       IN  document_chunks' =
               save_document_chunk(document_chunks, lastrowid + 1, tst.source_id,
                   tst.source_type, chunk.text, chunk.chunk_number, "sentences",
                   IF embedded
                   THEN PickleDumps(ProviderVector(EmbeddingInput(chunk.text)))
                   ELSE NullBlob,
                   JsonDumps(chunk.metadata))
    /\ lastrowid' = lastrowid + 1
    /\ tst' = [tst EXCEPT !.saved = @ \cup {i}]
    /\ UNCHANGED <<writer, calls, got, retrieved, fx, ck, ctx, ml, nl>>

\* retrieved = get_document_chunks(source_id, "test") once every chunk is saved
TestGet ==
    /\ tst.pc = "save"
    /\ tst.saved = 1..Len(tst.chunks)
    /\ tst' = [tst EXCEPT !.pc = "done",
                          !.retrieved = get_document_chunks(document_chunks,
                                            tst.source_id, tst.source_type)]
    /\ UNCHANGED <<document_chunks, lastrowid, writer, calls, got, retrieved, fx, ck, ctx, ml, nl>>

\* --------------------------------------- mastodon_listener.py: MastodonListener

\* The ids of the statuses that mention the account
Statuses == {"s1", "s2"}

\* fetch_mentions(limit=20), get_unresponded_interactions(limit=5)
MentionsLimit == 20
UnrespondedLimit == 5

NoPoll == [new_interactions |-> <<>>, replies_generated |-> <<>>]

\* The listener after __init__, before a notification exists: the tables
\* mastodon_interactions and posts in rowid order (interaction_id of a post
\* is the interaction process_interaction created it for), the mentions among
\* the notifications newest first, what the last poll_once returned, and in
\* how many polls a status was in new_interactions
IdleMastodon(auto_reply) ==
    [auto_reply |-> auto_reply, notifications |-> <<>>,
     mastodon_interactions |-> <<>>, posts |-> <<>>, polls |-> 0,
     results |-> NoPoll, announced |-> [s \in Statuses |-> 0]]

\* save_mastodon_interaction: the id of the row of mastodon_id, inserted if
\* there is none yet
save_mastodon_interaction(table, mastodon_id, interaction_type) ==
    IF \E i \in 1..Len(table) : table[i].mastodon_id = mastodon_id
    THEN [id |-> table[CHOOSE i \in 1..Len(table) :
                           table[i].mastodon_id = mastodon_id].id,
          table |-> table]
    ELSE [id |-> Len(table) + 1,
          table |-> Append(table, [id |-> Len(table) + 1, mastodon_id |-> mastodon_id,
                                   interaction_type |-> interaction_type,
                                   responded |-> FALSE,
                                   response_post_id |-> NULL])]

\* store_interaction(status) for a status that replies to nothing
store_interaction(table, status) == save_mastodon_interaction(table, status, "mention")

RECURSIVE StoreMentions(_, _)
\* The first for loop of poll_once from st = [table, new_interactions]
StoreMentions(mentions, st) ==
    IF mentions = <<>> THEN st
    ELSE LET stored == store_interaction(st.table, Head(mentions))
         IN  StoreMentions(Tail(mentions),
                 [table |-> stored.table,
                  new_interactions |->
                      IF stored.id # 0
                      THEN Append(st.new_interactions,
                                  [id |-> stored.id, mastodon_id |-> Head(mentions)])
                      ELSE st.new_interactions])

\* get_unresponded_interactions(limit): WHERE responded = 0 ... LIMIT ?
get_unresponded_interactions(table, limit) ==
    Slice(SelectSeq(table, LAMBDA row : ~row.responded), 0, limit)

\* UPDATE mastodon_interactions SET responded = 1, response_post_id = ?
\* WHERE id = ?
mark_interaction_responded(table, interaction_id, response_post_id) ==
    [i \in 1..Len(table) |->
        IF table[i].id = interaction_id
        THEN [table[i] EXCEPT !.responded = TRUE,
                              !.response_post_id = response_post_id]
        ELSE table[i]]

\* save_post(content, status): the row gets the next id
save_post(posts, interaction_id, status) ==
    Append(posts, [id |-> Len(posts) + 1, status |-> status,
                   interaction_id |-> interaction_id])

\* process_interaction from st = [table, posts, replies_generated]: with
\* auto_reply the reply is posted (status_post raises for the statuses of
\* failing, and process_interaction then returns None), saved as posted and
\* the interaction marked; without it the reply is saved as a draft
process_interaction(st, interaction, auto_reply, failing) ==
    LET post_id == Len(st.posts) + 1
        reply == [interaction_id |-> interaction.id, post_id |-> post_id]
    IN  IF auto_reply
        THEN IF interaction.mastodon_id \in failing THEN st
             ELSE [table |-> mark_interaction_responded(st.table, interaction.id,
                                                        post_id),
                   posts |-> save_post(st.posts, interaction.id, "posted"),
                   replies_generated |-> Append(st.replies_generated, reply)]
        ELSE [table |-> st.table,
              posts |-> save_post(st.posts, interaction.id, "draft"),
              replies_generated |-> Append(st.replies_generated, reply)]

RECURSIVE ProcessUnresponded(_, _, _, _)
\* The second for loop of poll_once
ProcessUnresponded(unresponded, st, auto_reply, failing) ==
    IF unresponded = <<>> THEN st
    ELSE ProcessUnresponded(Tail(unresponded),
             process_interaction(st, Head(unresponded), auto_reply, failing),
             auto_reply, failing)

\* A mention of the account is posted
MentionArrives(status) ==
    /\ \A i \in 1..Len(ml.notifications) : ml.notifications[i] # status
    /\ ml' = [ml EXCEPT !.notifications = <<status>> \o @]
    /\ UNCHANGED <<document_chunks, lastrowid, writer, calls, got, retrieved, fx, ck, ctx, tst, nl>>

\* poll_once(): fetch_mentions returns the notifications (none when the
\* request fails), each is stored, then the unresponded interactions are
\* processed
PollOnce(fetched, failing) ==
    /\ ml.polls < MaxPolls
    /\ LET mentions == IF fetched THEN Slice(ml.notifications, 0, MentionsLimit)
                       ELSE <<>>
           stored == StoreMentions(mentions, [table |-> ml.mastodon_interactions,
                                              new_interactions |-> <<>>])
           done == ProcessUnresponded(
                       get_unresponded_interactions(stored.table, UnrespondedLimit),
                       [table |-> stored.table, posts |-> ml.posts,
                        replies_generated |-> <<>>],
                       ml.auto_reply, failing)
       IN  ml' = [ml EXCEPT
                     !.mastodon_interactions = done.table,
                     !.posts = done.posts,
                     !.polls = @ + 1,
                     !.results = [new_interactions |-> stored.new_interactions,
                                  replies_generated |-> done.replies_generated],
                     !.announced =
                         [s \in Statuses |->
                             IF \E i \in 1..Len(stored.new_interactions) :
                                    stored.new_interactions[i].mastodon_id = s
                             THEN @[s] + 1 ELSE @[s]]]
    /\ UNCHANGED <<document_chunks, lastrowid, writer, calls, got, retrieved, fx, ck, ctx, tst, nl>>

\* ------------------------------------------- notion_listener.py: NotionListener

Pages == {"p1", "p2"}
\* The content of a page after its edit number t: one paragraph, nothing,
\* two paragraphs, and so on
PageContentAt(t) == <<<<"a">>, <<>>, <<"b", NL, NL, "a">>>>[((t - 1) % 3) + 1]

\* sync_page: chunk_size=500
NotionChunkSize == 500

\* page_id not in self._last_modified
NotRecorded == 0

\* What a sync_page call meets: everything works, fetch_page_content raises,
\* or a transaction of sync_notion_document_to_rag raises: that of
\* save_notion_document, or the DELETE of chunk_and_embed_document
SyncOutcomes == {"ok", "fetch_fails", "save_fails", "delete_fails"}

\* The last sync_page call for a page: the time fetched, the time recorded
\* before the call, whether sync_notion_document_to_rag was called and
\* whether it returned, and whether a sync without force had failed before
\* this call and none had returned since
NoSync ==
    [called |-> FALSE, force |-> FALSE, fetched_ok |-> FALSE, fetched |-> 0,
     recorded |-> NotRecorded, synced |-> FALSE, returned |-> FALSE,
     retry |-> FALSE]

\* The listener after __init__ and the pages it is given: _last_modified,
\* the pages at Notion, table notion_documents, the number of draft posts
\* generated, and per page the last sync_page call, whether a sync made
\* without force has failed and none has returned since, and the time its
\* last sync that returned had fetched
IdleNotion(auto_generate_posts) ==
    [auto_generate_posts |-> auto_generate_posts,
     last_modified |-> [p \in Pages |-> NotRecorded],
     pages |-> [p \in Pages |-> [last_edited_time |-> 1, content |-> PageContentAt(1)]],
     notion_documents |-> <<>>, posts |-> 0, polls |-> 0,
     last |-> [p \in Pages |-> NoSync],
     failed |-> [p \in Pages |-> FALSE],
     synced_at |-> [p \in Pages |-> NotRecorded]]

\* has_page_changed with the record ignored
has_page_changed_Always(last_modified, page_id, last_edited_time) == TRUE

\* has_page_changed(page_id, last_edited_time)
has_page_changed(last_modified, page_id, last_edited_time) ==
    IF last_modified[page_id] = NotRecorded THEN TRUE
    ELSE last_modified[page_id] # last_edited_time

\* save_notion_document: UPDATE the row of the page, or INSERT one
save_notion_document(table, notion_page_id, content) ==
    IF \E i \in 1..Len(table) : table[i].notion_page_id = notion_page_id
    THEN [i \in 1..Len(table) |->
             IF table[i].notion_page_id = notion_page_id
             THEN [table[i] EXCEPT !.content = content] ELSE table[i]]
    ELSE Append(table, [id |-> Len(table) + 1, notion_page_id |-> notion_page_id,
                        content |-> content])

RECURSIVE EmbedLoop(_, _, _, _, _, _)
\* The for loop of chunk_and_embed_document from st = [rows, lastrowid,
\* chunk_ids]: the provider embeds every chunk or fails on every chunk
EmbedLoop(chunks, st, source_id, source_type, strategy, embeds) ==
    IF chunks = <<>> THEN st
    ELSE LET chunk == Head(chunks)
             sent == EmbeddingInput(chunk.text)
         IN  EmbedLoop(Tail(chunks),
                 IF embeds /\ sent # <<>>
                 THEN [rows |-> save_document_chunk(st.rows, st.lastrowid + 1,
                                    source_id, source_type, chunk.text,
                                    chunk.chunk_number, strategy,
                                    PickleDumps(ProviderVector(sent)),
                                    JsonDumps(chunk.metadata)),
                       lastrowid |-> st.lastrowid + 1,
                       chunk_ids |-> Append(st.chunk_ids, st.lastrowid + 1)]
                 ELSE st,
                 source_id, source_type, strategy, embeds)

\* chunk_and_embed_document run from its DELETE to its return by one caller
chunk_and_embed_document(rows, rowid, text, source_id, source_type, strategy, chunk_size, embeds) ==
    EmbedLoop(chunk_document(text, strategy, chunk_size, DefaultOverlap).chunks,
              [rows |-> DeleteChunks(rows, source_id, source_type),
               lastrowid |-> rowid, chunk_ids |-> <<>>],
              source_id, source_type, strategy, embeds)

\* sync_page(page_id, force) from st = [nl, document_chunks, lastrowid,
\* result]; result tells whether the call returned a dict
sync_page(st, page_id, force, outcome, embeds) ==
    LET page == st.nl.pages[page_id]
        recorded == st.nl.last_modified[page_id]
        call == [called |-> TRUE, force |-> force,
                 fetched_ok |-> outcome # "fetch_fails",
                 fetched |-> page.last_edited_time, recorded |-> recorded,
                 synced |-> FALSE, returned |-> FALSE,
                 retry |-> st.nl.failed[page_id]]
        saved == save_notion_document(st.nl.notion_documents, page_id, page.content)
        embedded == chunk_and_embed_document(st.document_chunks, st.lastrowid,
                        page.content, page_id, "notion", "paragraphs",
                        NotionChunkSize, embeds)
    IN  IF outcome = "fetch_fails"
        THEN [st EXCEPT !.nl.last[page_id] = call, !.result = FALSE]
        ELSE IF ~force /\ ~has_page_changed(st.nl.last_modified, page_id,
                                           page.last_edited_time)
        THEN [st EXCEPT !.nl.last[page_id] = call, !.result = FALSE]
        ELSE IF outcome = "save_fails"
        THEN [st EXCEPT !.nl.last[page_id] = [call EXCEPT !.synced = TRUE],
                        !.nl.failed[page_id] = IF force THEN @ ELSE TRUE,
                        !.result = FALSE]
        ELSE IF outcome = "delete_fails"
        THEN [st EXCEPT !.nl.last[page_id] = [call EXCEPT !.synced = TRUE],
                        !.nl.failed[page_id] = IF force THEN @ ELSE TRUE,
                        !.nl.notion_documents = saved,
                        !.result = FALSE]
        ELSE [st EXCEPT !.nl.last[page_id] = [call EXCEPT !.synced = TRUE,
                                                          !.returned = TRUE],
                        !.nl.failed[page_id] = FALSE,
                        !.nl.synced_at[page_id] = page.last_edited_time,
                        !.nl.notion_documents = saved,
                        !.nl.last_modified[page_id] = page.last_edited_time,
                        !.document_chunks = embedded.rows,
                        !.lastrowid = embedded.lastrowid,
                        !.result = TRUE]

RECURSIVE NotionPollLoop(_, _, _, _)
\* The for loop of poll_once(page_ids): a page that was synced gets a draft
\* post when auto_generate_posts is set and the generation works. What the
\* calls meet is the same for every page of one poll; embeds tells whether
\* the provider answers, for the embeddings as for the post
NotionPollLoop(page_ids, st, outcome, embeds) ==
    IF page_ids = <<>> THEN st
    ELSE LET synced == sync_page(st, Head(page_ids), FALSE, outcome, embeds)
         IN  NotionPollLoop(Tail(page_ids),
                 IF synced.result /\ synced.nl.auto_generate_posts /\ embeds
                 THEN [synced EXCEPT !.nl.posts = @ + 1]
                 ELSE synced,
                 outcome, embeds)

\* A page is edited at Notion: its last_edited_time moves on
PageEdited(page_id) ==
    /\ nl.pages[page_id].last_edited_time < MaxEdits
    /\ nl' = [nl EXCEPT !.pages[page_id] =
                            [last_edited_time |-> @.last_edited_time + 1,
                             content |-> PageContentAt(@.last_edited_time + 1)]]
    /\ UNCHANGED <<document_chunks, lastrowid, writer, calls, got, retrieved, fx, ck, ctx, tst, ml>>

\* A sync_page(page_id, force) call
SyncPage(page_id, force, outcome, embeds) ==
    /\ nl.polls < MaxSyncs
    /\ \E st \in {sync_page([nl |-> nl, document_chunks |-> document_chunks,
                             lastrowid |-> lastrowid, result |-> FALSE],
                            page_id, force, outcome, embeds)} :
           /\ nl' = [st.nl EXCEPT !.polls = @ + 1]
           /\ document_chunks' = st.document_chunks
           /\ lastrowid' = st.lastrowid
    /\ UNCHANGED <<writer, calls, got, retrieved, fx, ck, ctx, tst, ml>>

\* A poll_once(page_ids) call
NotionPollOnce(page_ids, outcome, embeds) ==
    /\ nl.polls < MaxSyncs
    /\ \E st \in {NotionPollLoop(page_ids,
                      [nl |-> nl, document_chunks |-> document_chunks,
                       lastrowid |-> lastrowid, result |-> FALSE],
                      outcome, embeds)} :
           /\ nl' = [st.nl EXCEPT !.polls = @ + 1]
           /\ document_chunks' = st.document_chunks
           /\ lastrowid' = st.lastrowid
    /\ UNCHANGED <<writer, calls, got, retrieved, fx, ck, ctx, tst, ml>>

\* The other frames before any call
NoOtherCalls == ctx = NoContext /\ tst = IdleTest /\ ml = IdleMastodon(FALSE) /\ nl = IdleNotion(TRUE)

\* ------------------------------------------------------------ specifications

StoreInit ==
    /\ document_chunks = <<>>
    /\ lastrowid = 0
    /\ writer = [w \in Writers |-> IdleWriter]
    /\ calls = 0
    /\ got = NoGet
    /\ retrieved = NoRetrieval

\* Concurrent callers of chunk_and_embed_document and readers
Init == StoreInit /\ fx = IdleFx /\ ck = IdleCk /\ NoOtherCalls

Next ==
    \/ \E w \in Writers, source_id \in SourceIds, source_type \in SourceTypes,
          in \in SyncInputs :
           ChunkAndEmbedCall(w, source_id, source_type, in.text, in.strategy,
                             in.chunk_size)
    \/ \E w \in Writers : EmbedAndSave(w)
    \/ \E w \in Writers : EmbedFails(w)
    \/ \E source_id \in SourceIds, source_type \in SourceTypes :
           GetDocumentChunks(source_id, source_type)

Spec == Init /\ [][Next]_vars

\* One caller (a single-threaded host) syncing documents, saving chunks and,
\* between two writes, retrieving. A retrieval reads the table and writes
\* nothing, so what a second retrieval returns is what it returns as the first
\* one after the same write: the retrievals are taken from the state the last
\* write left.
NextRetrieve ==
    \/ \E source_id \in SourceIds, source_type \in SourceTypes, in \in SyncInputs :
           ChunkAndEmbedCall(1, source_id, source_type, in.text, in.strategy,
                             in.chunk_size)
    \/ EmbedAndSave(1)
    \/ EmbedFails(1)
    \/ /\ writer[1].pc # "embed"
       /\ \E source_id \in SourceIds, source_type \in SourceTypes :
              SaveChunkWithoutEmbedding(source_id, source_type)
    \/ /\ writer[1].pc # "embed"
       /\ retrieved = NoRetrieval
       /\ \E query \in Queries, source_type \in SourceTypes \cup {NULL},
             top_k \in TopKs :
              RetrieveRelevantChunks(query, source_type, top_k)
    \/ /\ writer[1].pc # "embed"
       /\ retrieved = NoRetrieval
       /\ \E query \in Queries : RetrieveProviderFails(query)

SpecRetrieve == Init /\ [][NextRetrieve]_vars

\* One chunk_document(text, "fixed_chars", chunk_size, overlap) call for every
\* text over the alphabet and every chunk_size >= 1 and overlap >= 0 in bounds;
\* the interpreter keeps executing the loop while it has not exited
InitFixed ==
    /\ StoreInit
    /\ fx \in {[IdleFx EXCEPT !.pc = "call", !.text = t, !.chunk_size = s,
                              !.overlap = o] :
                  t \in FixedTexts, s \in 1..MaxChunkSize, o \in 0..MaxOverlap}
    /\ ck = IdleCk
    /\ NoOtherCalls

NextFixed == FixedCharsCall \/ FixedCharsIterate \/ FixedCharsReturn

SpecFixed == InitFixed /\ [][NextFixed]_vars /\ WF_vars(NextFixed)

\* One call of the chunker for every text, strategy and size in bounds
InitChunk == StoreInit /\ fx = IdleFx /\ ChunkCalls /\ NoOtherCalls

NextChunk == ChunkDocumentCall \/ ChunkDocumentHybridCall

SpecChunk == InitChunk /\ [][NextChunk]_vars

\* One caller that fills the table and then builds a context: directly, or
\* inside generate_social_post or generate_comment_reply
InitContext == Init

NextContext ==
    \/ /\ ctx = NoContext
       /\ \/ \E source_id \in SourceIds, source_type \in SourceTypes, in \in SyncInputs :
                 ChunkAndEmbedCall(1, source_id, source_type, in.text, in.strategy,
                                   in.chunk_size)
          \/ EmbedAndSave(1)
          \/ EmbedFails(1)
          \/ /\ writer[1].pc # "embed"
             /\ \E source_id \in SourceIds, source_type \in SourceTypes :
                    SaveChunkWithoutEmbedding(source_id, source_type)
    \/ /\ ctx = NoContext
       /\ writer[1].pc # "embed"
       /\ \/ \E query \in Queries, top_k \in TopKs, answers \in BOOLEAN :
                 BuildRagContext(query, top_k, answers)
          \/ \E brand_docs \in BrandDocs, use_rag \in BOOLEAN, rag_query \in RagQueries,
                answers \in BOOLEAN :
                 GenerateSocialPost(brand_docs, use_rag, rag_query, answers)
          \/ \E original_comment \in Queries, brand_docs \in BrandDocs,
                use_rag \in BOOLEAN, answers \in BOOLEAN :
                 GenerateCommentReply(original_comment, brand_docs, use_rag, answers)

SpecContext == InitContext /\ [][NextContext]_vars

\* The round trip of the store: chunks saved on their own may be in the table
\* before the document's chunks are saved and read back
NextStore ==
    \/ /\ tst.pc = "idle"
       /\ \E source_id \in SourceIds, source_type \in SourceTypes :
              SaveChunkWithoutEmbedding(source_id, source_type)
    \/ \E doc \in TestDocs, source_id \in SourceIds, source_type \in SourceTypes :
           TestChunk(doc, source_id, source_type)
    \/ \E i \in 1..Len(tst.chunks), embedded \in BOOLEAN : TestSaveChunk(i, embedded)
    \/ TestGet

SpecStore == Init /\ [][NextStore]_vars

\* A listener in draft or in auto-reply mode polling while mentions arrive
InitMastodon ==
    /\ StoreInit /\ fx = IdleFx /\ ck = IdleCk
    /\ ctx = NoContext /\ tst = IdleTest /\ nl = IdleNotion(TRUE)
    /\ \E auto_reply \in BOOLEAN : ml = IdleMastodon(auto_reply)

NextMastodon ==
    \/ \E status \in Statuses : MentionArrives(status)
    \/ \E fetched \in BOOLEAN, failing \in SUBSET Statuses : PollOnce(fetched, failing)

SpecMastodon == InitMastodon /\ [][NextMastodon]_vars

\* A listener polling two pages while they are edited
InitNotion ==
    /\ StoreInit /\ fx = IdleFx /\ ck = IdleCk
    /\ ctx = NoContext /\ tst = IdleTest /\ ml = IdleMastodon(FALSE)
    /\ \E auto_generate_posts \in BOOLEAN : nl = IdleNotion(auto_generate_posts)

NextNotion ==
    \/ \E page_id \in Pages : PageEdited(page_id)
    \/ \E page_id \in Pages, force \in BOOLEAN, outcome \in SyncOutcomes,
          embeds \in BOOLEAN :
           SyncPage(page_id, force, outcome, embeds)
    \/ \E page_ids \in {<<"p1">>, <<"p1", "p2">>}, outcome \in SyncOutcomes,
          embeds \in BOOLEAN :
           NotionPollOnce(page_ids, outcome, embeds)

SpecNotion == InitNotion /\ [][NextNotion]_vars

\* ------------------------------------------------------------------ claims

RowIds(rows) == [i \in 1..Len(rows) |-> rows[i].id]

\* rows are the chunks of one chunker pass, all of them, in order
IsWholePass(rows, chunks) ==
    /\ Len(rows) = Len(chunks)
    /\ \A i \in 1..Len(rows) :
           /\ rows[i].chunk_number = chunks[i].chunk_number
           /\ rows[i].chunk_text = chunks[i].text

\* What get_document_chunks returns for the key of caller w
StoredFor(w) ==
    get_document_chunks(document_chunks, writer[w].source_id, writer[w].source_type)

\* Caller w's call has returned and no other call touched its key meanwhile
ReturnedAlone(w) == writer[w].pc = "done" /\ writer[w].clean

\* C1: a get_document_chunks issued while one re-sync of a key that held
\* records is under way (its chunker produced at least one segment) returns
\* either all the old records or all the new ones, never none or a part.
C1_ReplaceAtomicForReaders ==
    (Cardinality(got.during) = 1 /\ got.old # <<>> /\ got.expected # <<>>)
        => (got.rows = got.old \/ IsWholePass(got.rows, got.expected))

\* C2: once two chunk_and_embed_document calls on the same key have both
\* returned, the key holds the records of exactly one of them and no
\* chunk_number twice.
C2_ConcurrentSyncsLeaveOnePass ==
    \A w \in Writers, v \in Writers :
        (/\ w # v
         /\ writer[w].pc = "done" /\ writer[v].pc = "done"
         /\ SameKey(writer[v], writer[w].source_id, writer[w].source_type))
            => /\ \E u \in {w, v} : RowIds(StoredFor(w)) = writer[u].chunk_ids
               /\ \A i \in 1..Len(StoredFor(w)), j \in 1..Len(StoredFor(w)) :
                      i # j => StoredFor(w)[i].chunk_number
                                   # StoredFor(w)[j].chunk_number

\* C3: after a chunk_and_embed_document call that ran alone on its key and
\* in which every embedding succeeded, get_document_chunks returns exactly
\* the rows that call inserted: its segments, numbered 0..n-1, each once, and
\* no row the key held before the call.
C3_SecondSyncReplacesFirst ==
    \A w \in Writers :
        (ReturnedAlone(w) /\ writer[w].failed = {})
            => /\ RowIds(StoredFor(w)) = writer[w].chunk_ids
               /\ IsWholePass(StoredFor(w), writer[w].chunks)
               /\ \A i \in 1..Len(StoredFor(w)) :
                      StoredFor(w)[i].chunk_number = i - 1
               /\ Range(RowIds(StoredFor(w))) \cap Range(RowIds(writer[w].old)) = {}

\* C3 witness: a second sync of a key has returned, every embedding done, and
\* the first sync had stored another text under the key
C3_Witness ==
    \E w \in Writers :
        /\ ReturnedAlone(w) /\ writer[w].failed = {}
        /\ writer[w].old # <<>> /\ writer[w].chunks # <<>>
        /\ Len(writer[w].old) = 2 /\ Len(writer[w].chunks) = 1

\* C4: a segment whose embedding failed is still stored under the key, so
\* that get_document_chunks returns as many records as the chunker produced.
C4_FailedSegmentStillStored ==
    \A w \in Writers :
        ReturnedAlone(w) => Len(StoredFor(w)) = Len(writer[w].chunks)

\* C5: a failed embedding does not end the call with an exception, and when
\* the call has returned, each segment of the pass is stored with an
\* embedding and scanned by retrieval exactly when its embedding did not
\* fail: the segments after a failed one as well.
C5_FailureIsolated ==
    \A w \in Writers :
        /\ writer[w].failed # {} => writer[w].pc \in {"embed", "done"}
        /\ ReturnedAlone(w) =>
               \A i \in 1..Len(writer[w].chunks) :
                   (i \notin writer[w].failed) <=>
                       \E r \in Range(ScanChunks(document_chunks, NULL)) :
                           /\ SameKey(r, writer[w].source_id, writer[w].source_type)
                           /\ r.id \in Range(writer[w].chunk_ids)
                           /\ r.chunk_number = writer[w].chunks[i].chunk_number
                           /\ r.chunk_text = writer[w].chunks[i].text

\* C5 witness: a call has returned in which the first of two segments failed
\* and the second did not
C5_Witness ==
    \E w \in Writers :
        /\ ReturnedAlone(w)
        /\ Len(writer[w].chunks) = 2
        /\ writer[w].failed = {1}
        /\ Len(writer[w].chunk_ids) = 1

\* C6: the value a sync returns tells the number of segments the chunker
\* produced: two returned calls whose results hold equally many chunk ids had
\* equally many segments produced.
C6_ResultTellsProducedCount ==
    \A w \in Writers, v \in Writers :
        (writer[w].pc = "done" /\ writer[v].pc = "done"
         /\ Len(writer[w].chunk_ids) = Len(writer[v].chunk_ids))
            => Len(writer[w].chunks) = Len(writer[v].chunks)

\* C7: the window loop of _chunk_by_fixed_chars exits for every text, every
\* chunk_size >= 1 and every overlap >= 0.
C7_FixedCharsTerminates == <>(fx.pc = "done")

\* C8: retrieve_relevant_chunks with top_k <= 0 returns no result.
C8_NonPositiveTopKIsEmpty ==
    (retrieved.raised = "" /\ retrieved.top_k <= 0) => retrieved.results = <<>>

\* C9: two results of equal similarity appear in ascending chunk_number order.
C9_TiesByChunkNumber ==
    \A i \in 1..Len(retrieved.results), j \in 1..Len(retrieved.results) :
        (i < j /\ SimilarityEqual(retrieved.results[i].similarity,
                                  retrieved.results[j].similarity))
            => retrieved.results[i].chunk_number <= retrieved.results[j].chunk_number

\* The similarity of a scanned row to the query of the last retrieval
SimilarityOfRow(row) ==
    cosine_similarity(ProviderVector(EmbeddingInput(retrieved.query)),
                      PickleLoads(row.embedding))

\* C10: for top_k >= 1 the results are min(top_k, number of candidates)
\* distinct candidates in non-increasing similarity order, and no candidate
\* left out is more similar to the query than a returned one.
C10_TopKHighest ==
    (retrieved.raised = "" /\ retrieved.top_k >= 1 /\ retrieved.query # <<>>) =>
        LET res == retrieved.results
            cands == retrieved.rows
        IN  /\ Len(res) = Min(retrieved.top_k, Len(cands))
            /\ Range(RowIds(res)) \subseteq Range(RowIds(cands))
            /\ Cardinality(Range(RowIds(res))) = Len(res)
            /\ \A i \in 1..Len(res), j \in 1..Len(res) :
                   i < j => ~SimilarityLess(res[i].similarity, res[j].similarity)
            /\ \A c \in Range(cands), r \in Range(res) :
                   c.id \notin Range(RowIds(res))
                       => ~SimilarityLess(r.similarity, SimilarityOfRow(c))

\* C10 witness: a retrieval with top_k >= 1 left a candidate out, and the most
\* similar candidate was not the first row scanned
C10_Witness ==
    /\ retrieved.raised = "" /\ retrieved.top_k >= 1 /\ retrieved.query # <<>>
    /\ Len(retrieved.rows) > retrieved.top_k
    /\ Len(retrieved.results) = retrieved.top_k
    /\ retrieved.results[1].id # retrieved.rows[1].id
    /\ SimilarityLess(SimilarityOfRow(retrieved.rows[1]),
                      retrieved.results[1].similarity)

\* The rows of the table a retrieval with the given filter has to consider
Candidates(source_type) ==
    {r \in Range(document_chunks) :
        /\ r.embedding # NullBlob
        /\ source_type # NULL => r.source_type = source_type}

\* C11: the results of a retrieval are records of the table that hold an
\* embedding and, when a source_type is given, are of that source_type; all
\* of these appear when top_k leaves room for them, and when there is none
\* the call returns the empty list and raises nothing.
C11_CandidatesHaveEmbeddingAndType ==
    (retrieved.query # <<>> /\ retrieved.raised = "") =>
        LET cands == Candidates(retrieved.source_type)
            res == retrieved.results
        IN  /\ \A i \in 1..Len(res) :
                   \E r \in cands :
                       /\ r.id = res[i].id
                       /\ r.chunk_text = res[i].chunk_text
                       /\ r.chunk_number = res[i].chunk_number
                       /\ r.source_id = res[i].source_id
                       /\ r.source_type = res[i].source_type
            /\ retrieved.top_k >= Cardinality(cands)
                   => Range(RowIds(res)) = {r.id : r \in cands}
            /\ cands = {} => res = <<>>

\* C11 witness: a retrieval filtered by a source_type found the table holding
\* a record of that type without embedding and an embedded record of another
\* type, and returned the empty list
C11_Witness ==
    /\ retrieved.query # <<>> /\ retrieved.raised = ""
    /\ retrieved.source_type = "notion" /\ retrieved.top_k >= 1
    /\ \E r \in Range(document_chunks) :
           r.source_type = "notion" /\ r.embedding = NullBlob
    /\ \E r \in Range(document_chunks) :
           r.source_type = "article" /\ r.embedding # NullBlob
    /\ retrieved.results = <<>>

\* The call of the chunker has returned a segment list
Returned(fn, strategy) ==
    ck.pc = "done" /\ ck.raised = "" /\ ck.fn = fn /\ ck.strategy = strategy

\* C12: chunk_document with a strategy it does not know raises ValueError
\* for every text and never returns a segment list.
C12_UnknownStrategyRaises ==
    (ck.pc = "done" /\ ck.fn = "chunk_document"
     /\ ck.strategy \notin {"fixed_chars", "paragraphs", "sentences"})
        => ck.raised = "ValueError"

\* C13: a segment of paragraph-merge that holds two or more paragraphs is at
\* most chunk_size characters long, the separators counted.
C13_MergedSegmentWithinSize ==
    Returned("chunk_document", "paragraphs") =>
        \A k \in 1..Len(ck.chunks) :
            ck.chunks[k].metadata.paragraph_count >= 2
                => Len(ck.chunks[k].text) <= ck.chunk_size

\* The non-empty paragraphs of a text, trimmed, in input order
InputParagraphs(text) ==
    SelectSeq([i \in 1..Len(SplitParagraphs(text)) |-> Strip(SplitParagraphs(text)[i])],
              LAMBDA para : para # <<>>)

RECURSIVE ParagraphsBefore(_, _)
\* The number of paragraphs in the segments before segment k
ParagraphsBefore(chunks, k) ==
    IF k = 1 THEN 0
    ELSE ParagraphsBefore(chunks, k - 1) + chunks[k - 1].metadata.paragraph_count

\* C14: the segments of paragraph-merge are the non-empty paragraphs of the
\* text cut into consecutive groups, each paragraph whole and in one segment,
\* in input order; a paragraph longer than chunk_size is alone in its segment.
C14_ParagraphsNeverSplit ==
    Returned("chunk_document", "paragraphs") =>
        LET paras == InputParagraphs(ck.text)
            chunks == ck.chunks
        IN  /\ ParagraphsBefore(chunks, Len(chunks) + 1) = Len(paras)
            /\ \A k \in 1..Len(chunks) :
                   LET before == ParagraphsBefore(chunks, k)
                       count == chunks[k].metadata.paragraph_count
                   IN  /\ count >= 1
                       /\ chunks[k].text =
                              JoinWith(SubSeq(paras, before + 1, before + count),
                                       <<NL, NL>>)
                       /\ (\E i \in (before + 1)..(before + count) :
                               Len(paras[i]) > ck.chunk_size) => count = 1

\* C14 witness: a returned paragraph-merge call with two segments, the
\* second one a single paragraph longer than chunk_size
C14_Witness ==
    /\ Returned("chunk_document", "paragraphs")
    /\ Len(ck.chunks) = 2
    /\ Len(ck.chunks[2].text) > ck.chunk_size
    /\ ck.chunks[2].metadata.paragraph_count = 1

\* C15: when chunk_document(text, "fixed_chars", chunk_size, overlap) has
\* returned, every position of the text that holds a non-whitespace
\* character lies in [start_index, end_index) of a segment.
C15_FixedCharsCovers ==
    fx.pc = "done" =>
        \A i \in 0..(Len(fx.text) - 1) :
            ~IsSpace(fx.text[i + 1]) =>
                \E k \in 1..Len(fx.result) :
                    /\ fx.result[k].start_index <= i
                    /\ i < fx.result[k].end_index

\* C16: the start_index of each segment of the fixed_chars loop is greater
\* than that of the segment before it, at every iteration and for every
\* overlap.
C16_FixedCharsAdvances ==
    \A k \in 2..Len(fx.chunks) :
        fx.chunks[k].start_index > fx.chunks[k - 1].start_index

\* C16 witness: a call with overlap >= chunk_size has returned two or more
\* segments
C16_Witness ==
    /\ fx.pc = "done"
    /\ fx.overlap >= fx.chunk_size
    /\ Len(fx.result) >= 2

\* The strategies of chunk_document
Strategies == {"fixed_chars", "paragraphs", "sentences"}

\* C17: for an empty or whitespace-only text chunk_document with each of its
\* strategies, and chunk_document_hybrid, return the empty list and raise
\* nothing.
C17_BlankTextGivesNoSegments ==
    (/\ ck.pc \in {"done", "hang"}
     /\ Strip(ck.text) = <<>>
     /\ ck.fn = "chunk_document" => ck.strategy \in Strategies)
        => (ck.pc = "done" /\ ck.raised = "" /\ ck.chunks = <<>>)

\* C17 witness: chunk_document_hybrid has returned for a text of whitespace
\* with a blank line in it
C17_Witness ==
    /\ ck.pc = "done" /\ ck.fn = "chunk_document_hybrid"
    /\ Len(ck.text) >= 3 /\ Strip(ck.text) = <<>>
    /\ ParagraphBreakEnd(ck.text, 0) # -1
    /\ ck.raised = "" /\ ck.chunks = <<>>

\* The characters of a text that are not whitespace, in order
Squash(text) == SelectSeq(text, LAMBDA c : ~IsSpace(c))

\* The texts of the segments
ChunkTexts(chunks) == [k \in 1..Len(chunks) |-> chunks[k].text]

\* C18: sentence-count chunking with chunk_size n >= 1 cuts the sentence
\* list into consecutive groups without overlap: every segment but the last
\* holds n sentences, the last between 1 and n, no character of a sentence
\* (a trailing fragment included) is lost or repeated, and "A. B. C. D."
\* with n = 2 gives "A. B." and "C. D.", numbered 0 and 1.
C18_SentencesPartitioned ==
    (Returned("chunk_document", "sentences") /\ ck.chunk_size >= 1) =>
        LET sentences == SentencesOf(ck.text)
            n == ck.chunk_size
            chunks == ck.chunks
        IN  /\ Len(chunks) = (Len(sentences) + n - 1) \div n
            /\ \A k \in 1..Len(chunks) :
                   LET count == chunks[k].metadata.sentence_count
                   IN  /\ k < Len(chunks) => count = n
                       /\ k = Len(chunks) => (1 <= count /\ count <= n)
                       /\ chunks[k].text =
                              JoinWith(SubSeq(sentences, (k - 1) * n + 1,
                                              (k - 1) * n + count), <<SP>>)
            /\ Squash(JoinWith(ChunkTexts(chunks), <<>>)) = Squash(ck.text)
            /\ (ck.text = ScenarioText /\ n = 2) =>
                   /\ ChunkTexts(chunks) = << <<"A", ".", SP, "B", ".">>,
                                              <<"C", ".", SP, "D", ".">> >>
                   /\ chunks[1].chunk_number = 0
                   /\ chunks[2].chunk_number = 1

\* C18 witness: a call with chunk_size 2 has returned two segments, the
\* second holding one sentence, a trailing fragment without punctuation
C18_Witness ==
    /\ Returned("chunk_document", "sentences")
    /\ ck.chunk_size = 2
    /\ Len(ck.chunks) = 2
    /\ ck.chunks[2].metadata.sentence_count = 1
    /\ ck.text[Len(ck.text)] \notin SentenceEnds \cup Whitespace

\* C19: the chunk_number values of the segments a call of the chunker
\* returns are 0, 1, ..., n-1 in list order, for every strategy and for the
\* hybrid chunker.
C19_ChunkNumbersDense ==
    (ck.pc = "done" /\ ck.raised = "") =>
        \A k \in 1..Len(ck.chunks) : ck.chunks[k].chunk_number = k - 1

\* C19 witness: the hybrid chunker has returned the two sentence segments of
\* a re-split paragraph chunk followed by a paragraph chunk it kept
C19_Witness ==
    /\ ck.pc = "done" /\ ck.fn = "chunk_document_hybrid"
    /\ Len(ck.chunks) = 3
    /\ "sentence_count" \in DOMAIN ck.chunks[2].metadata
    /\ "paragraph_count" \in DOMAIN ck.chunks[3].metadata

\* C20: every segment chunk_document_hybrid returns carries the strategy
\* "hybrid" in its metadata, the re-split ones and the ones kept.
C20_HybridSegmentsTagged ==
    (ck.pc = "done" /\ ck.fn = "chunk_document_hybrid") =>
        \A k \in 1..Len(ck.chunks) : ck.chunks[k].metadata.strategy = "hybrid"

RECURSIVE ContextBlocks(_, _)
\* The blocks i.. of a context: the label, the segment text and an empty line
ContextBlocks(chunks, i) ==
    IF i > Len(chunks) THEN <<>>
    ELSE ContextLabel(i) \o <<NL>> \o chunks[i].chunk_text \o <<NL>>
         \o (IF i < Len(chunks) THEN <<NL>> ELSE <<>>)
         \o ContextBlocks(chunks, i + 1)

\* C21: build_rag_context returns, for the n results of retrieval taken in
\* similarity order, the blocks "[Context i]", the i-th segment text and an
\* empty line, numbered from 1, with n <= top_k (no block at all for a top_k
\* below 1), and no text that is not among the retrieved results
C21_ContextBlocksWithinTopK ==
    (ctx.fn = "build_rag_context" /\ ctx.raised = "") =>
        /\ ctx.rag_context = ContextBlocks(ctx.chunks, 1)
        /\ Len(ctx.chunks) <= Max(ctx.top_k, 0)
        /\ \A i \in 1..Len(ctx.chunks) :
               /\ \E j \in 1..Len(ctx.rows) : ctx.rows[j].id = ctx.chunks[i].id
                                              /\ ctx.rows[j].chunk_text = ctx.chunks[i].chunk_text
               /\ i < Len(ctx.chunks) =>
                      ~SimilarityLess(ctx.chunks[i].similarity,
                                      ctx.chunks[i + 1].similarity)

\* C22: build_rag_context returns the empty string exactly when retrieval
\* yields no results (as it does when no record has an embedding), and then
\* generate_social_post and generate_comment_reply go on with the brand
\* documents as their context
C22_EmptyContextFallsBack ==
    /\ (ctx.fn = "build_rag_context" /\ ctx.raised = "") =>
           /\ ctx.rag_context = <<>> <=> ctx.chunks = <<>>
           /\ ctx.rows = <<>> => ctx.rag_context = <<>>
    /\ (/\ ctx.fn \in {"generate_social_post", "generate_comment_reply"}
        /\ ctx.use_rag
        /\ ctx.warned = ""
        /\ ctx.chunks = <<>>) =>
           /\ ctx.raised = ""
           /\ ctx.rag_context = <<>>
           /\ ctx.context = ctx.brand_docs

\* a reply is generated with retrieval on while the table holds only records
\* without an embedding
C22_Witness ==
    /\ ctx.fn = "generate_comment_reply"
    /\ ctx.use_rag
    /\ ctx.warned = ""
    /\ document_chunks # <<>>
    /\ ctx.rows = <<>>
    /\ ctx.brand_docs # <<>>
    /\ ctx.context = ctx.brand_docs

\* C24: in fixed_chars chunking the end of a non-final window is moved back
\* only when the natural boundary start + chunk_size falls inside a word
\* (the characters on both sides of it are no spaces); the window is then cut
\* just after the nearest space at most 50 characters back, and in every
\* other case it ends at start + chunk_size.
C24_EndMovedOnlyInsideWord ==
    \A k \in 1..Len(fx.chunks) :
        LET start == fx.chunks[k].start_index
            natural == start + fx.chunk_size
            spaces == {p \in Max(start + 1, natural - LookBack)..(natural - 1) :
                           fx.text[p + 1] = SP}
            nearest == CHOOSE p \in spaces : \A q \in spaces : q <= p
        IN  (start >= 0 /\ natural < Len(fx.text)) =>
                IF /\ ~IsSpace(fx.text[natural])
                   /\ ~IsSpace(fx.text[natural + 1])
                   /\ spaces # {}
                THEN fx.chunks[k].end_index = nearest + 1
                ELSE fx.chunks[k].end_index = natural

\* C25: paragraph-merge is greedy-maximal: a segment ends before a paragraph
\* only when that paragraph, appended with its two-character separator, would
\* make the segment text longer than chunk_size; the first segment of a
\* document as every later one.
C25_ParagraphMergeGreedy ==
    Returned("chunk_document", "paragraphs") =>
        LET paras == InputParagraphs(ck.text)
            chunks == ck.chunks
        IN  \A k \in 1..(Len(chunks) - 1) :
                Len(chunks[k].text) + 2
                    + Len(paras[ParagraphsBefore(chunks, k + 1) + 1]) > ck.chunk_size

\* C26: after save_document_chunk was called once for each chunk of a
\* document under a key that held no record before, get_document_chunks for
\* the key returns as many records as chunks were saved, with the saved texts
\* in ascending chunk_number order, with or without embeddings.
C26_StoreRoundTrip ==
    (tst.pc = "done" /\ tst.fresh) =>
        /\ Len(tst.retrieved) = Len(tst.chunks)
        /\ \A i \in 1..Len(tst.retrieved) :
               /\ tst.retrieved[i].chunk_text = tst.chunks[i].text
               /\ tst.retrieved[i].chunk_number = tst.chunks[i].chunk_number
        /\ \A i \in 1..Len(tst.retrieved), j \in 1..Len(tst.retrieved) :
               i < j => tst.retrieved[i].chunk_number < tst.retrieved[j].chunk_number

\* a document of three chunks was saved under a fresh key, a later chunk
\* before an earlier one and one of them without an embedding, while another
\* key holds a record, and was read back
C26_Witness ==
    /\ tst.pc = "done" /\ tst.fresh
    /\ Len(tst.chunks) = 3
    /\ \E i \in 1..Len(document_chunks), j \in 1..Len(document_chunks) :
           /\ i < j
           /\ SameKey(document_chunks[i], tst.source_id, tst.source_type)
           /\ SameKey(document_chunks[j], tst.source_id, tst.source_type)
           /\ document_chunks[i].chunk_number > document_chunks[j].chunk_number
           /\ document_chunks[i].embedding = NullBlob
    /\ \E i \in 1..Len(document_chunks) :
           ~SameKey(document_chunks[i], tst.source_id, tst.source_type)

\* C27: store_interaction returns an interaction id only the first time a
\* status id is stored, so over any sequence of poll_once calls a status is
\* in new_interactions in at most one poll, and mastodon_interactions holds
\* at most one row per status id.
C27_StatusAnnouncedOnce ==
    /\ \A s \in Statuses : ml.announced[s] <= 1
    /\ \A i \in 1..Len(ml.mastodon_interactions),
          j \in 1..Len(ml.mastodon_interactions) :
           ml.mastodon_interactions[i].mastodon_id
               = ml.mastodon_interactions[j].mastodon_id => i = j

\* C28: over any sequence of poll_once calls, in draft mode as in auto-reply
\* mode, at most one row of posts is created for each stored interaction.
C28_OneReplyPerInteraction ==
    \A i \in 1..Len(ml.posts), j \in 1..Len(ml.posts) :
        ml.posts[i].interaction_id = ml.posts[j].interaction_id => i = j

\* C29: sync_page without force re-syncs a page exactly when no
\* last_edited_time is recorded for it or the fetched one differs from the
\* one recorded at its last sync that returned; the record is updated only
\* after sync_notion_document_to_rag has returned, so a sync (without force)
\* that fails leaves it unchanged and the next call syncs the page again.
C29_ResyncWhenEdited ==
    /\ nl.last_modified = nl.synced_at
    /\ \A p \in Pages :
           LET l == nl.last[p]
           IN  /\ (l.called /\ l.fetched_ok /\ ~l.force) =>
                      /\ l.synced <=> (l.recorded = NotRecorded
                                       \/ l.fetched # l.recorded)
                      /\ l.retry => l.synced
               /\ l.called =>
                      nl.last_modified[p] =
                          IF l.synced /\ l.returned THEN l.fetched ELSE l.recorded

\* a page whose sync had failed, its record left as it was, was synced
\* again by the next call, without force, and recorded
C29_Witness ==
    \E p \in Pages :
        /\ nl.last[p].retry /\ ~nl.last[p].force
        /\ nl.last[p].synced /\ nl.last[p].returned
        /\ nl.last[p].recorded = NotRecorded
        /\ nl.last_modified[p] = nl.last[p].fetched

\* The records of a key, in rowid order
RecordsOf(rows, source_id, source_type) ==
    SelectSeq(rows, LAMBDA r : r.source_id = source_id /\ r.source_type = source_type)

\* C30: a step of chunk_and_embed_document for a key leaves the records of
\* every other key as they were, a key with the same source_id and another
\* source_type included: none is deleted, added or modified, whether the
\* sync succeeds, fails in part or receives empty text.
C30_OtherKeysUnchanged ==
    [][\A source_id \in SourceIds, source_type \in SourceTypes :
           (\A w \in Writers :
                writer'[w] # writer[w] =>
                    ~(/\ writer'[w].source_id = source_id
                      /\ writer'[w].source_type = source_type))
               => RecordsOf(document_chunks', source_id, source_type)
                      = RecordsOf(document_chunks, source_id, source_type)]_vars

\* a sync of one source_type has stored its chunks and returned while the
\* records stored before it under the same source_id and the other
\* source_type are in the table
C30_Witness ==
    \E w \in Writers, r \in Range(document_chunks) :
        /\ writer[w].pc = "done"
        /\ writer[w].chunk_ids # <<>>
        /\ r.source_id = writer[w].source_id
        /\ r.source_type # writer[w].source_type
        /\ r.id < writer[w].chunk_ids[1]

====
